---------------------------- MODULE Spec2Model ----------------------------
(***************************************************************************)
(* State-machine model of the NFTMinter front end:                         *)
(*   App        (src/frontend/src/App.tsx)   wallet session + gallery      *)
(*   NFTMinter  (src/unnamed/part_000)       signer/contract + mint form   *)
(*                                                                         *)
(* Every `await` of the source is a suspension point: the code before it   *)
(* and the code after it are separate atomic steps, and the outcome of the *)
(* awaited external call (wallet, contract, storage endpoint, gateway) is  *)
(* chosen by the environment.  React state setters are applied at the step *)
(* that calls them; an effect with dependency [account] runs in the step   *)
(* that changes `account`.  Closures keep the values of the render in      *)
(* which the handler was created, so an in-flight operation carries the    *)
(* values it captured.                                                     *)
(***************************************************************************)
EXTENDS Integers, Sequences, FiniteSets, Bags, TLC

(***************************************************************************)
(* Bounds of the model                                                     *)
(***************************************************************************)
MaxConnects == 1      \* connectWallet calls in flight
MaxFetches  == 1      \* fetchNFTs runs in flight
MaxInits    == 1      \* signer initialisations in flight (each kind)
MaxMints    == 1      \* mint flows in flight
MaxNfts     == 2      \* gallery entries + mint flows in flight
MaxId       == 1      \* largest counter value getItemId returns

(***************************************************************************)
(* Values                                                                  *)
(***************************************************************************)
None     == "none"                        \* null / undefined
Accounts == {"0xA", "0xB"}
Files    == {"file1"}
Names    == {"", "name1"}
Descriptions == {"", "desc1"}

\* App.tsx error strings
InstallMsg      == "Please install MetaMask to use this application"
ConnectFailMsg  == "Failed to connect wallet. Please try again."
FetchFailMsg    == "Could not fetch your NFTs. Please try again later."
InstallShortMsg == "Please install MetaMask"
\* NFTMinter error strings
FillFieldsMsg   == "Please fill in all fields"
ConnectFirstMsg == "Please connect your wallet first"
InitFailMsg     == "Failed to initialize wallet connection"
MintFailMsg     == "Failed to mint NFT"
\* message carried by an Error thrown by an external call
CallErrorMsg    == "call failed"

DefaultDescription == "This is an NFT minted on the Westend Asset Hub"
DefaultImageCid    == "QmXoypizjW3WknFiJnKLwHCnL72vedxjQkDDP1mXWo6uco"

\* names of the external endpoints a step can call
Endpoints == {"eth_requestAccounts", "getSigner", "getItemId", "tokenURI",
              "fetch", "uploadToIPFS", "uploadMetadataToIPFS", "mintNFT",
              "tx.wait"}

(***************************************************************************)
(* Strings with structure.  A content reference or URL is a scheme prefix  *)
(* followed by a content id; a token location string is its text up to the *)
(* first comma (a reference) followed by the comma-separated fields after  *)
(* it.                                                                     *)
(***************************************************************************)
Ref(scheme, cid) == [scheme |-> scheme, cid |-> cid]
NoRef == Ref("", "")                         \* undefined / empty string

ImageCids == {"QmImage1", "QmImage2"}        \* what the image upload returns
MetaCids  == {"QmMeta1"}                     \* what the metadata upload returns

\* a metadata document: { name, description, image }
Doc(n, d, i) == [name |-> n, description |-> d, image |-> i]
NoDoc == Doc("", "", NoRef)
\* the JSON text `null`: JSON.parse returns null, and reading a property of
\* null throws
NullDoc == Doc(None, None, Ref(None, None))
Docs  == {Doc("name0", "desc0", Ref("ipfs://", "QmImage0")), NoDoc, NullDoc}

\* a comma-separated field: valid base64 or not, valid JSON or not
Payload(b, j, d) == [b64 |-> b, json |-> j, doc |-> d]
Payloads == {Payload(TRUE, TRUE, d) : d \in Docs}
              \cup {Payload(FALSE, FALSE, NoDoc), Payload(TRUE, FALSE, NoDoc)}

Uri(ref, fields) == [ref |-> ref, fields |-> fields]
NoUri == Uri(NoRef, << >>)
DataUris == {Uri(Ref("data:", "application/json;base64"), <<p>>) : p \in Payloads}
IpfsUris == {Uri(Ref("ipfs://", c), << >>) : c \in MetaCids}
TokenUris == DataUris \cup IpfsUris

\* src/frontend/src/App.tsx:136  `NFT #${tokenId}`
DefaultName(tokenId) == "NFT #" \o ToString(tokenId)

\* String.prototype.replace('ipfs://', ''): drops the prefix when present
StripIpfs(ref) == IF ref.scheme = "ipfs://" THEN Ref("", ref.cid) ELSE ref

\* utils/ipfs getIpfsUrl: a content id becomes an HTTP gateway URL
GetIpfsUrl(ref) == Ref("https://gateway/" \o ref.scheme, ref.cid)

\* a gallery entry; `owner` is a history field: the account the entry was
\* loaded or minted for
Item(n, d, i, o) == [name |-> n, description |-> d, image |-> i, owner |-> o]

(***************************************************************************)
(* Operations in flight                                                    *)
(***************************************************************************)
\* a fetchNFTs run: the account of its closure, the await it is suspended
\* at, the token id it has computed
Fetch(acct, pc, id) == [acct |-> acct, pc |-> pc, id |-> id]
\* a handleMint run: the values of its closure, the await it is suspended
\* at, the references the uploads returned
Mint(f, n, d, acct, ctr, pc, img, meta) ==
  [file |-> f, name |-> n, description |-> d, acct |-> acct, contract |-> ctr,
   pc |-> pc, imageUri |-> img, metadataUri |-> meta]
NoMint == Mint(None, "", "", None, None, "", NoRef, NoRef)

\* MintingState
MintingState(m, e, s) == [isMinting |-> m, error |-> e, success |-> s]

\* the value a step worked on: the argument of the call a mint flow issued
\* (a file, a metadata document or gallery entry, a location string), or
\* the document a gallery load decoded or fetched
Args(f, d, r) == [file |-> f, doc |-> d, ref |-> r]
NoArgs == Args(None, NoDoc, NoRef)

\* the step taken last: the handler or continuation that ran, its outcome,
\* the calls it issued, the mint flow it belongs to, a number it read, (for
\* a reload) what was in flight, the reference an upload returned, and the
\* argument of the call a mint flow issued
EvArg(op, out, calls, flow, id, pending, ret, arg) ==
  [op |-> op, out |-> out, calls |-> calls, flow |-> flow, id |-> id,
   pending |-> pending, ret |-> ret, arg |-> arg]
EvRet(op, out, calls, flow, id, pending, ret) ==
  EvArg(op, out, calls, flow, id, pending, ret, NoArgs)
Ev(op, out, calls, flow, id, pending) ==
  EvRet(op, out, calls, flow, id, pending, NoRef)

Add(bag, x) == bag (+) SetToBag({x})
Del(bag, x) == bag (-) SetToBag({x})

VARIABLES
  hasProvider,   \* window.ethereum is present
  wallet,        \* the account the wallet currently exposes, or None
  listeners,     \* listeners registered with the provider
  mounted,       \* the mount effects of App and NFTMinter have run
  \* App state
  nfts, loading, error, account, isConnecting,
  \* NFTMinter state
  file, name, description, previewUrl, contract, signer, mintingState,
  \* operations in flight
  connects,      \* number of connectWallet calls awaiting the provider
  checking,      \* checkConnection is awaiting getSigner
  fetches,       \* bag of Fetch
  inits,         \* bag of accounts: init() runs awaiting getSigner
  acctInits,     \* number of NFTMinter handleAccountsChanged awaiting getSigner
  mints,         \* bag of Mint
  ev             \* the step taken last

envVars  == <<hasProvider, wallet>>
appVars  == <<nfts, loading, error, account, isConnecting>>
formVars == <<file, name, description, previewUrl>>
sessVars == <<contract, signer>>
opVars   == <<connects, checking, fetches, inits, acctInits, mints>>
vars == <<hasProvider, wallet, listeners, mounted,
          nfts, loading, error, account, isConnecting,
          file, name, description, previewUrl, contract, signer, mintingState,
          connects, checking, fetches, inits, acctInits, mints, ev>>

(***************************************************************************)
(* Initial state: a freshly loaded page, the useState initial values,      *)
(* before the mount effects have run.                                      *)
(***************************************************************************)
InitialMintingState == MintingState(FALSE, None, FALSE)
NoEv == Ev("load", "", {}, NoMint, -1, {})

\* the component state and the pending continuations of a fresh page
FreshPage ==
  /\ listeners = {} /\ mounted = FALSE
  /\ nfts = << >> /\ loading = TRUE /\ error = None /\ account = None
  /\ isConnecting = FALSE
  /\ file = None /\ name = "" /\ description = "" /\ previewUrl = None
  /\ contract = None /\ signer = None
  /\ mintingState = InitialMintingState
  /\ connects = 0 /\ checking = FALSE /\ fetches = EmptyBag
  /\ inits = EmptyBag /\ acctInits = 0 /\ mints = EmptyBag

Init ==
  /\ hasProvider \in BOOLEAN
  /\ wallet \in (IF hasProvider THEN {None, "0xA"} ELSE {None})
  /\ FreshPage
  /\ ev = NoEv

(***************************************************************************)
(* The effects with dependency [account]: fetchNFTs (App.tsx:94-178) up to *)
(* its first await, and init (part_000:52-79) up to its first await.  They *)
(* run in the step that changes `account` to a; e is the value the step    *)
(* itself gives `error`.                                                   *)
(***************************************************************************)
\* mutant: a load that starts sets the flag
FetchNFTsLoadingRestarts(a) ==
  IF a # account THEN (a # None /\ hasProvider) ELSE loading

\* App.tsx:96-106, 172-174: without an account, or without a provider, the
\* load ends at once and sets the flag to false; otherwise it leaves it
FetchNFTsLoading(a) ==
  IF a # account /\ (a = None \/ ~hasProvider) THEN FALSE ELSE loading

FetchNFTsError(a, e) ==
  IF a # account /\ a # None /\ ~hasProvider THEN InstallShortMsg ELSE e

FetchNFTsStart(a) ==
  IF a # account /\ a # None /\ hasProvider
    THEN Add(fetches, Fetch(a, "getSigner", -1))
    ELSE fetches

InitStart(a) ==
  IF a # account /\ a # None /\ hasProvider THEN Add(inits, a) ELSE inits

\* room for the operations a change of account to a starts
RoomFor(a) ==
  (a # account /\ a # None) =>
     /\ BagCardinality(fetches) < MaxFetches
     /\ BagCardinality(inits) < MaxInits

\* the provider calls those effects issue
EffectCalls(a) ==
  IF a # account /\ a # None /\ hasProvider THEN {"getSigner"} ELSE {}

\* setAccount(a), setError(e) and the effects that follow
SetAccount(a, e) ==
  /\ account' = a
  /\ error' = FetchNFTsError(a, e)
  /\ loading' = FetchNFTsLoading(a)
  /\ fetches' = FetchNFTsStart(a)
  /\ inits' = InitStart(a)

(***************************************************************************)
(* Mount: the mount effects of NFTMinter (child first) and App.            *)
(***************************************************************************)
MinterListeners == {"NFTMinter.accountsChanged", "NFTMinter.chainChanged"}
AppListeners    == {"App.accountsChanged", "App.chainChanged"}

\* mutant: only the accountsChanged listeners are registered
MountWithoutChainListeners ==
  /\ ~mounted
  /\ mounted' = TRUE
  /\ listeners' = IF hasProvider
                    THEN {"NFTMinter.accountsChanged", "App.accountsChanged"}
                    ELSE {}
  /\ checking' = hasProvider
  /\ loading' = FALSE
  /\ ev' = Ev("mount", "", IF hasProvider THEN {"getSigner"} ELSE {}, NoMint, -1, {})
  /\ UNCHANGED <<envVars, nfts, error, account, isConnecting, formVars,
                 sessVars, mintingState, connects, fetches, inits, acctInits,
                 mints>>

Mount ==
  /\ ~mounted
  /\ mounted' = TRUE
  /\ listeners' = IF hasProvider THEN MinterListeners \cup AppListeners ELSE {}
  /\ checking' = hasProvider                \* checkConnection()
  /\ loading' = FALSE                       \* fetchNFTs(): no account
  /\ ev' = Ev("mount", "", IF hasProvider THEN {"getSigner"} ELSE {}, NoMint, -1, {})
  /\ UNCHANGED <<envVars, nfts, error, account, isConnecting, formVars,
                 sessVars, mintingState, connects, fetches, inits, acctInits,
                 mints>>

(***************************************************************************)
(* Unmount: the cleanups of the mount effects run.  The state of the       *)
(* unmounted components is discarded, and a continuation that resolves     *)
(* later sets state of a component that no longer exists, which has no     *)
(* effect: the pending continuations are dropped with the state.           *)
(***************************************************************************)
\* part_000:104-107: accountsChanged is removed with the function that was
\* registered; chainChanged is "removed" with a new arrow function, which
\* was never registered, so that the registered one stays
MinterCleanup(ls) == ls \ {"NFTMinter.accountsChanged"}

\* App.tsx:87-90: both listeners are removed with the registered functions
AppCleanup(ls) == ls \ {"App.accountsChanged", "App.chainChanged"}

Unmount ==
  /\ mounted
  /\ mounted' = FALSE
  /\ listeners' = AppCleanup(MinterCleanup(listeners))
  /\ nfts' = << >> /\ loading' = TRUE /\ error' = None /\ account' = None
  /\ isConnecting' = FALSE
  /\ file' = None /\ name' = "" /\ description' = "" /\ previewUrl' = None
  /\ contract' = None /\ signer' = None
  /\ mintingState' = InitialMintingState
  /\ connects' = 0 /\ checking' = FALSE /\ fetches' = EmptyBag
  /\ inits' = EmptyBag /\ acctInits' = 0 /\ mints' = EmptyBag
  /\ ev' = Ev("unmount", "", {}, NoMint, -1, {})
  /\ UNCHANGED envVars

(***************************************************************************)
(* connectWallet (App.tsx:35-55).  Both "Connect Wallet" buttons are       *)
(* rendered only while account is null; only App's is disabled while       *)
(* isConnecting.                                                           *)
(***************************************************************************)
\* mutant: no return after the provider check: the request throws inside
\* the try, and the catch and the finally run
ConnectWalletNoReturn ==
  /\ mounted /\ account = None
  /\ IF ~hasProvider
       THEN /\ error' = ConnectFailMsg
            /\ ev' = Ev("connectWallet", "noProvider", {}, NoMint, -1, {})
            /\ UNCHANGED <<isConnecting, connects>>
       ELSE /\ connects < MaxConnects
            /\ isConnecting' = TRUE
            /\ connects' = connects + 1
            /\ ev' = Ev("connectWallet", "request", {"eth_requestAccounts"},
                        NoMint, -1, {})
            /\ UNCHANGED error
  /\ UNCHANGED <<envVars, listeners, mounted, nfts, loading, account, formVars,
                 sessVars, mintingState, checking, fetches, inits, acctInits,
                 mints>>

ConnectWallet ==
  /\ mounted /\ account = None
  /\ IF ~hasProvider
       THEN /\ error' = InstallMsg
            /\ ev' = Ev("connectWallet", "noProvider", {}, NoMint, -1, {})
            /\ UNCHANGED <<isConnecting, connects>>
       ELSE /\ connects < MaxConnects
            /\ isConnecting' = TRUE
            /\ connects' = connects + 1
            /\ ev' = Ev("connectWallet", "request", {"eth_requestAccounts"},
                        NoMint, -1, {})
            /\ UNCHANGED error
  /\ UNCHANGED <<envVars, listeners, mounted, nfts, loading, account, formVars,
                 sessVars, mintingState, checking, fetches, inits, acctInits,
                 mints>>

\* the access request resolves with the wallet's account
ConnectResolve(a) ==
  /\ connects > 0
  /\ wallet \in {None, a}
  /\ RoomFor(a)
  /\ wallet' = a
  /\ SetAccount(a, None)
  /\ isConnecting' = FALSE
  /\ connects' = connects - 1
  /\ ev' = Ev("connectWallet", "resolved", EffectCalls(a), NoMint, -1, {})
  /\ UNCHANGED <<hasProvider, listeners, mounted, nfts, formVars, sessVars,
                 mintingState, checking, acctInits, mints>>

\* mutant: the catch does not reset the account
ConnectRejectKeepsAccount ==
  /\ connects > 0
  /\ SetAccount(account, ConnectFailMsg)
  /\ isConnecting' = FALSE
  /\ connects' = connects - 1
  /\ ev' = Ev("connectWallet", "rejected", EffectCalls(account), NoMint, -1, {})
  /\ UNCHANGED <<envVars, listeners, mounted, nfts, formVars, sessVars,
                 mintingState, checking, acctInits, mints>>

\* mutant: no finally: the catch leaves the connecting flag set
ConnectRejectNoFinally ==
  /\ connects > 0
  /\ SetAccount(None, ConnectFailMsg)
  /\ connects' = connects - 1
  /\ ev' = Ev("connectWallet", "rejected", EffectCalls(None), NoMint, -1, {})
  /\ UNCHANGED <<envVars, listeners, mounted, nfts, isConnecting, formVars,
                 sessVars, mintingState, checking, acctInits, mints>>

\* the access request is declined or errors
ConnectReject ==
  /\ connects > 0
  /\ SetAccount(None, ConnectFailMsg)
  /\ isConnecting' = FALSE
  /\ connects' = connects - 1
  /\ ev' = Ev("connectWallet", "rejected", EffectCalls(None), NoMint, -1, {})
  /\ UNCHANGED <<envVars, listeners, mounted, nfts, formVars, sessVars,
                 mintingState, checking, acctInits, mints>>

(***************************************************************************)
(* checkConnection (App.tsx:58-73): adopts an already authorised account.  *)
(* signer.getAddress() returns the address the signer was created with.    *)
(***************************************************************************)
CheckConnectionResolve ==
  /\ checking
  /\ wallet # None
  /\ RoomFor(wallet)
  /\ SetAccount(wallet, None)
  /\ checking' = FALSE
  /\ ev' = Ev("checkConnection", "resolved", EffectCalls(wallet), NoMint, -1, {})
  /\ UNCHANGED <<envVars, listeners, mounted, nfts, isConnecting, formVars,
                 sessVars, mintingState, connects, acctInits, mints>>

CheckConnectionFail ==
  /\ checking
  /\ SetAccount(None, error)
  /\ checking' = FALSE
  /\ ev' = Ev("checkConnection", "failed", {}, NoMint, -1, {})
  /\ UNCHANGED <<envVars, listeners, mounted, nfts, isConnecting, formVars,
                 sessVars, mintingState, connects, acctInits, mints>>

(***************************************************************************)
(* Provider events.  The provider calls the listeners registered for the   *)
(* event, in registration order, within one step.                          *)
(***************************************************************************)
\* what is in flight: the kinds of pending continuations
Pending ==
  (IF connects > 0 THEN {"connectWallet"} ELSE {})
    \cup (IF checking THEN {"checkConnection"} ELSE {})
    \cup {"fetchNFTs." \o f.pc : f \in BagToSet(fetches)}
    \cup {"init" : a \in BagToSet(inits)}
    \cup (IF acctInits > 0 THEN {"handleAccountsChanged"} ELSE {})
    \cup {"handleMint." \o m.pc : m \in BagToSet(mints)}

\* the payloads of accountsChanged for the wallet accounts accts
AccountLists(accts) == {<< >>} \cup {<<a>> : a \in accts}

\* the account the wallet exposes after accountsChanged(accounts)
WalletOf(accounts) == IF Len(accounts) = 0 THEN None ELSE accounts[1]

\* mutant: if (accounts[0]) setAccount(accounts[0])
FirstOrKeep(accounts) == IF Len(accounts) = 0 THEN account ELSE accounts[1]
\* App.tsx:77  accounts[0] || null
FirstOrNull(accounts) == IF Len(accounts) = 0 THEN None ELSE accounts[1]

\* accountsChanged(accounts): NFTMinter handleAccountsChanged
\* (part_000:84-99), then App handleAccountsChanged (App.tsx:76-78)
AccountsChanged(accounts) ==
  /\ hasProvider
  /\ WalletOf(accounts) # wallet
  /\ wallet' = WalletOf(accounts)
  /\ IF "NFTMinter.accountsChanged" \in listeners
       THEN IF Len(accounts) = 0
              THEN /\ signer' = None
                   /\ contract' = None
                   /\ UNCHANGED acctInits
              ELSE /\ acctInits < MaxInits
                   /\ acctInits' = acctInits + 1
                   /\ UNCHANGED sessVars
       ELSE UNCHANGED <<sessVars, acctInits>>
  /\ IF "App.accountsChanged" \in listeners
       THEN /\ RoomFor(FirstOrNull(accounts))
            /\ SetAccount(FirstOrNull(accounts), error)
       ELSE UNCHANGED <<account, error, loading, fetches, inits>>
  /\ ev' = Ev("accountsChanged", IF Len(accounts) = 0 THEN "empty" ELSE "account",
              (IF "NFTMinter.accountsChanged" \in listeners /\ Len(accounts) # 0
                 THEN {"getSigner"} ELSE {})
              \cup (IF "App.accountsChanged" \in listeners
                      THEN EffectCalls(FirstOrNull(accounts)) ELSE {}),
              NoMint, -1, {})
  /\ UNCHANGED <<hasProvider, listeners, mounted, nfts, isConnecting, formVars,
                 mintingState, connects, checking, mints>>

\* window.location.reload(): the page, with its component state and its
\* pending continuations, is replaced by a fresh one
Reload ==
  /\ listeners' = {} /\ mounted' = FALSE
  /\ nfts' = << >> /\ loading' = TRUE /\ error' = None /\ account' = None
  /\ isConnecting' = FALSE
  /\ file' = None /\ name' = "" /\ description' = "" /\ previewUrl' = None
  /\ contract' = None /\ signer' = None
  /\ mintingState' = InitialMintingState
  /\ connects' = 0 /\ checking' = FALSE /\ fetches' = EmptyBag
  /\ inits' = EmptyBag /\ acctInits' = 0 /\ mints' = EmptyBag

\* chainChanged: NFTMinter's listener (part_000:102) and App's
\* handleChainChanged (App.tsx:80-82) both reload the page
ChainChanged ==
  /\ hasProvider
  /\ IF listeners \cap {"NFTMinter.chainChanged", "App.chainChanged"} # {}
       THEN /\ Reload
            /\ ev' = Ev("chainChanged", "reload", {}, NoMint, -1, Pending)
       ELSE /\ ev' = Ev("chainChanged", "ignored", {}, NoMint, -1, Pending)
            /\ UNCHANGED <<listeners, mounted, appVars, formVars, sessVars,
                           mintingState, opVars>>
  /\ UNCHANGED envVars

(***************************************************************************)
(* The signer initialisations of NFTMinter.  provider.getSigner() yields a *)
(* signer for the account the wallet exposes, and fails when there is none *)
(* or when the request errors.                                             *)
(***************************************************************************)
\* init (part_000:57-66)
InitResolve(a) ==
  /\ BagIn(a, inits)
  /\ wallet # None
  /\ signer' = wallet
  /\ contract' = wallet
  /\ inits' = Del(inits, a)
  /\ ev' = Ev("init", "resolved", {}, NoMint, -1, {})
  /\ UNCHANGED <<envVars, listeners, mounted, appVars, formVars, mintingState,
                 connects, checking, fetches, acctInits, mints>>

\* init (part_000:67-74)
InitFail(a) ==
  /\ BagIn(a, inits)
  /\ mintingState' = MintingState(FALSE, InitFailMsg, FALSE)
  /\ inits' = Del(inits, a)
  /\ ev' = Ev("init", "failed", {}, NoMint, -1, {})
  /\ UNCHANGED <<envVars, listeners, mounted, appVars, formVars, sessVars,
                 connects, checking, fetches, acctInits, mints>>

\* handleAccountsChanged (part_000:90-97)
AcctInitResolve ==
  /\ acctInits > 0
  /\ wallet # None
  /\ signer' = wallet
  /\ contract' = wallet
  /\ acctInits' = acctInits - 1
  /\ ev' = Ev("handleAccountsChanged", "resolved", {}, NoMint, -1, {})
  /\ UNCHANGED <<envVars, listeners, mounted, appVars, formVars, mintingState,
                 connects, checking, fetches, inits, mints>>

\* handleAccountsChanged has no catch: a rejected getSigner sets nothing
AcctInitFail ==
  /\ acctInits > 0
  /\ acctInits' = acctInits - 1
  /\ ev' = Ev("handleAccountsChanged", "failed", {}, NoMint, -1, {})
  /\ UNCHANGED <<envVars, listeners, mounted, appVars, formVars, sessVars,
                 mintingState, connects, checking, fetches, inits, mints>>

(***************************************************************************)
(* fetchNFTs (App.tsx:95-175), after its first await.                      *)
(***************************************************************************)
\* the message of a caught value: error.message of an Error, else the default
Thrown(default) == {CallErrorMsg, default}

\* tokenURI.split(',')[1]: the field after the first comma, or undefined
SplitField1(uri) ==
  IF Len(uri.fields) >= 1 THEN uri.fields[1] ELSE Payload(FALSE, FALSE, NoDoc)

\* atob(data) then JSON.parse(decodedData) (App.tsx:130-132): either throws
InlineDecode(uri) ==
  LET data == SplitField1(uri)
  IN  IF data.b64 /\ data.json THEN [ok |-> TRUE, doc |-> data.doc]
                               ELSE [ok |-> FALSE, doc |-> NoDoc]

\* a || b on strings
OrElse(a, b) == IF a = "" THEN b ELSE a

\* the entry pushed at App.tsx:135-139
InlineItem(f, metadata) ==
  Item(OrElse(metadata.name, DefaultName(f.id)),
       OrElse(metadata.description, DefaultDescription),
       metadata.image, f.acct)

\* the entry pushed at App.tsx:150-154
IpfsItem(f, metadata) ==
  Item(OrElse(metadata.name, DefaultName(f.id)),
       OrElse(metadata.description, DefaultDescription),
       IF metadata.image # NoRef THEN GetIpfsUrl(StripIpfs(metadata.image))
                                 ELSE Ref("https://w3s.link/ipfs/", DefaultImageCid),
       f.acct)

FetchFrame ==
  UNCHANGED <<envVars, listeners, mounted, account, isConnecting, formVars,
              sessVars, mintingState, connects, checking, inits, acctInits,
              mints>>

\* App.tsx:108-109 getSigner resolved; getItemId is called
FetchSignerResolve(f) ==
  /\ BagIn(f, fetches) /\ f.pc = "getSigner"
  /\ wallet # None
  /\ fetches' = Add(Del(fetches, f), [f EXCEPT !.pc = "getItemId"])
  /\ ev' = Ev("fetchNFTs.getSigner", "resolved", {"getItemId"}, NoMint, -1, {})
  /\ UNCHANGED <<nfts, loading, error>>
  /\ FetchFrame

\* App.tsx:169-174 getSigner rejected
FetchSignerFail(f, msg) ==
  /\ BagIn(f, fetches) /\ f.pc = "getSigner"
  /\ error' = msg
  /\ loading' = FALSE
  /\ fetches' = Del(fetches, f)
  /\ ev' = Ev("fetchNFTs.getSigner", "failed", {}, NoMint, -1, {})
  /\ UNCHANGED nfts
  /\ FetchFrame

\* mutant: currentId === '0', a bigint is never identical to a string
NoTokensStrict(currentId) == FALSE
\* App.tsx:115  currentId.toString() === '0'
NoTokens(currentId) == ToString(currentId) = "0"

\* mutant: the token with the counter's own value is read
LastTokenIdOffByOne(currentId) == currentId
\* App.tsx:124  BigInt(currentId) - BigInt(1)
LastTokenId(currentId) == currentId - 1

\* App.tsx:112-126 the counter is read as currentId
FetchCounterResolve(f, currentId) ==
  /\ BagIn(f, fetches) /\ f.pc = "getItemId"
  /\ IF NoTokens(currentId)
       THEN /\ nfts' = << >>
            /\ loading' = FALSE
            /\ fetches' = Del(fetches, f)
            /\ ev' = Ev("fetchNFTs.getItemId", "resolved", {}, NoMint, currentId, {})
       ELSE /\ fetches' = Add(Del(fetches, f),
                              [f EXCEPT !.pc = "tokenURI",
                                        !.id = LastTokenId(currentId)])
            /\ ev' = Ev("fetchNFTs.getItemId", "resolved", {"tokenURI"}, NoMint,
                        currentId, {})
            /\ UNCHANGED <<nfts, loading>>
  /\ UNCHANGED error
  /\ FetchFrame

\* App.tsx:165-168, 172-174 the counter read failed
FetchCounterFail(f) ==
  /\ BagIn(f, fetches) /\ f.pc = "getItemId"
  /\ error' = FetchFailMsg
  /\ loading' = FALSE
  /\ fetches' = Del(fetches, f)
  /\ ev' = Ev("fetchNFTs.getItemId", "failed", {}, NoMint, -1, {})
  /\ UNCHANGED nfts
  /\ FetchFrame

\* App.tsx:126-143, 163-164 the location string is read as tokenURI.  The
\* inline try covers the decode (130-132) and the entry built from the
\* decoded value (135-139); its catch starts the remote fetch.  The outcome
\* is "inline" (decoded, entry built), "decoded" (decoded, but building the
\* entry threw) or "fallback" (the decode threw).
FetchTokenURIResolve(f, tokenURI) ==
  /\ BagIn(f, fetches) /\ f.pc = "tokenURI"
  /\ IF InlineDecode(tokenURI).ok /\ InlineDecode(tokenURI).doc # NullDoc
       THEN /\ nfts' = <<InlineItem(f, InlineDecode(tokenURI).doc)>>
            /\ loading' = FALSE
            /\ fetches' = Del(fetches, f)
            /\ ev' = EvArg("fetchNFTs.tokenURI", "inline", {}, NoMint, f.id, {},
                           NoRef, Args(None, InlineDecode(tokenURI).doc, NoRef))
       ELSE /\ fetches' = Add(Del(fetches, f),
                              [f EXCEPT !.pc = "fetch"])
            /\ ev' = EvArg("fetchNFTs.tokenURI",
                           IF InlineDecode(tokenURI).ok THEN "decoded"
                                                        ELSE "fallback",
                           {"fetch"}, NoMint, f.id, {}, NoRef,
                           Args(None, InlineDecode(tokenURI).doc, NoRef))
            /\ UNCHANGED <<nfts, loading>>
  /\ UNCHANGED error
  /\ FetchFrame

\* mutant: no inner try: the failure reaches the catch of the counter read
FetchTokenURIFailOuter(f) ==
  /\ BagIn(f, fetches) /\ f.pc = "tokenURI"
  /\ error' = FetchFailMsg
  /\ loading' = FALSE
  /\ fetches' = Del(fetches, f)
  /\ ev' = Ev("fetchNFTs.tokenURI", "failed", {}, NoMint, f.id, {})
  /\ UNCHANGED nfts
  /\ FetchFrame

\* App.tsx:159-164, 172-174 the tokenURI read failed
FetchTokenURIFail(f) ==
  /\ BagIn(f, fetches) /\ f.pc = "tokenURI"
  /\ nfts' = << >>
  /\ loading' = FALSE
  /\ fetches' = Del(fetches, f)
  /\ ev' = Ev("fetchNFTs.tokenURI", "failed", {}, NoMint, f.id, {})
  /\ UNCHANGED error
  /\ FetchFrame

\* App.tsx:143-147 the gateway answered; ok is response.ok
FetchResponse(f, ok) ==
  /\ BagIn(f, fetches) /\ f.pc = "fetch"
  /\ IF ok
       THEN /\ fetches' = Add(Del(fetches, f), [f EXCEPT !.pc = "json"])
            /\ ev' = Ev("fetchNFTs.fetch", "ok", {}, NoMint, f.id, {})
            /\ UNCHANGED <<nfts, loading>>
       ELSE /\ nfts' = << >>
            /\ loading' = FALSE
            /\ fetches' = Del(fetches, f)
            /\ ev' = Ev("fetchNFTs.fetch", "notOk", {}, NoMint, f.id, {})
  /\ UNCHANGED error
  /\ FetchFrame

\* App.tsx:155-157, 163-164 the request itself failed
FetchResponseFail(f) ==
  /\ BagIn(f, fetches) /\ f.pc = "fetch"
  /\ nfts' = << >>
  /\ loading' = FALSE
  /\ fetches' = Del(fetches, f)
  /\ ev' = Ev("fetchNFTs.fetch", "failed", {}, NoMint, f.id, {})
  /\ UNCHANGED error
  /\ FetchFrame

\* App.tsx:147-157, 163-164 the body parsed as metadata; building the entry
\* from null throws into the catch of the remote tier
FetchJsonResolve(f, metadata) ==
  /\ BagIn(f, fetches) /\ f.pc = "json"
  /\ nfts' = IF metadata # NullDoc THEN <<IpfsItem(f, metadata)>> ELSE << >>
  /\ loading' = FALSE
  /\ fetches' = Del(fetches, f)
  /\ ev' = EvArg("fetchNFTs.json",
                 IF metadata # NullDoc THEN "remote" ELSE "parsed",
                 {}, NoMint, f.id, {}, NoRef, Args(None, metadata, NoRef))
  /\ UNCHANGED error
  /\ FetchFrame

\* App.tsx:155-157, 163-164 the body did not parse
FetchJsonFail(f) ==
  /\ BagIn(f, fetches) /\ f.pc = "json"
  /\ nfts' = << >>
  /\ loading' = FALSE
  /\ fetches' = Del(fetches, f)
  /\ ev' = Ev("fetchNFTs.json", "failed", {}, NoMint, f.id, {})
  /\ UNCHANGED error
  /\ FetchFrame

(***************************************************************************)
(* The mint form (part_000:111-117, 266-287).  The form is rendered only   *)
(* while account is set.                                                   *)
(***************************************************************************)
FormFrame ==
  UNCHANGED <<envVars, listeners, mounted, appVars, sessVars, mintingState,
              opVars>>

\* URL.createObjectURL(file)
CreateObjectURL(f) == Ref("blob:", f)

HandleFileChange(f) ==
  /\ mounted /\ account # None
  /\ file' = f
  /\ previewUrl' = CreateObjectURL(f)
  /\ ev' = Ev("handleFileChange", "", {}, NoMint, -1, {})
  /\ UNCHANGED <<name, description>>
  /\ FormFrame

SetName(v) ==
  /\ mounted /\ account # None
  /\ v # name
  /\ name' = v
  /\ ev' = Ev("setName", "", {}, NoMint, -1, {})
  /\ UNCHANGED <<file, description, previewUrl>>
  /\ FormFrame

SetDescription(v) ==
  /\ mounted /\ account # None
  /\ v # description
  /\ description' = v
  /\ ev' = Ev("setDescription", "", {}, NoMint, -1, {})
  /\ UNCHANGED <<file, name, previewUrl>>
  /\ FormFrame

(***************************************************************************)
(* handleMint (part_000:119-191)                                           *)
(***************************************************************************)
\* part_000:197-210, 290-292: the Mint button is rendered and enabled
MintButtonEnabled ==
  mounted /\ account # None /\ ~(mintingState.isMinting \/ signer = None)

\* mutant: the description is not checked
FieldsMissingSkipsDescription == file = None \/ name = ""
\* part_000:120
FieldsMissing == file = None \/ name = "" \/ description = ""
\* part_000:129
SessionMissing == account = None \/ contract = None \/ signer = None

MintFrame ==
  UNCHANGED <<envVars, listeners, mounted, loading, error, account,
              isConnecting, sessVars, connects, checking, fetches, inits,
              acctInits>>

\* mutant: the rejection sets no message
FieldsMissingStateNoError == MintingState(FALSE, None, FALSE)
\* part_000:121-125
FieldsMissingState == MintingState(FALSE, FillFieldsMsg, FALSE)
\* part_000:130-134
SessionMissingState == MintingState(FALSE, ConnectFirstMsg, FALSE)
\* mutant: the failure leaves the in-flight flag set
MintFailedStateStillMinting(msg) == MintingState(TRUE, msg, FALSE)
\* part_000:185-189
MintFailedState(msg) == MintingState(FALSE, msg, FALSE)

\* a click on the Mint button: handleMint up to its first await
HandleMint ==
  /\ MintButtonEnabled
  /\ IF FieldsMissing
       THEN /\ mintingState' = FieldsMissingState
            /\ ev' = Ev("handleMint", "fieldsMissing", {}, NoMint, -1, {})
            /\ UNCHANGED mints
       ELSE IF SessionMissing
       THEN /\ mintingState' = SessionMissingState
            /\ ev' = Ev("handleMint", "sessionMissing", {}, NoMint, -1, {})
            /\ UNCHANGED mints
       ELSE LET m == Mint(file, name, description, account, contract,
                          "uploadToIPFS", NoRef, NoRef)
            IN  /\ BagCardinality(mints) < MaxMints
                /\ Len(nfts) + BagCardinality(mints) < MaxNfts
                /\ mintingState' = MintingState(TRUE, None, FALSE)
                /\ mints' = Add(mints, m)
                /\ ev' = EvArg("handleMint", "started", {"uploadToIPFS"}, m, -1,
                               {}, NoRef, Args(file, NoDoc, NoRef))
  /\ UNCHANGED <<nfts, formVars>>
  /\ MintFrame

\* part_000:143-153 the image upload returned imageUri
MintUploadResolve(m, cid) ==
  /\ BagIn(m, mints) /\ m.pc = "uploadToIPFS"
  /\ mints' = Add(Del(mints, m),
                  [m EXCEPT !.pc = "uploadMetadataToIPFS",
                            !.imageUri = Ref("ipfs://", cid)])
  /\ ev' = EvArg("handleMint.uploadToIPFS", "resolved",
                 {"uploadMetadataToIPFS"}, m, -1, {}, Ref("ipfs://", cid),
                 Args(None, Doc(m.name, m.description, Ref("ipfs://", cid)),
                      NoRef))
  /\ UNCHANGED <<nfts, formVars, mintingState>>
  /\ MintFrame

\* mutant: mintNFT is called with the image reference
MintMetadataResolveSendsImage(m, cid) ==
  /\ BagIn(m, mints) /\ m.pc = "uploadMetadataToIPFS"
  /\ mints' = Add(Del(mints, m),
                  [m EXCEPT !.pc = "mintNFT",
                            !.metadataUri = Ref("ipfs://", cid)])
  /\ ev' = EvArg("handleMint.uploadMetadataToIPFS", "resolved", {"mintNFT"},
                 m, -1, {}, Ref("ipfs://", cid), Args(None, NoDoc, m.imageUri))
  /\ UNCHANGED <<nfts, formVars, mintingState>>
  /\ MintFrame

\* part_000:153-158 the metadata upload returned metadataUri
MintMetadataResolve(m, cid) ==
  /\ BagIn(m, mints) /\ m.pc = "uploadMetadataToIPFS"
  /\ mints' = Add(Del(mints, m),
                  [m EXCEPT !.pc = "mintNFT",
                            !.metadataUri = Ref("ipfs://", cid)])
  /\ ev' = EvArg("handleMint.uploadMetadataToIPFS", "resolved", {"mintNFT"},
                 m, -1, {}, Ref("ipfs://", cid),
                 Args(None, NoDoc, Ref("ipfs://", cid)))
  /\ UNCHANGED <<nfts, formVars, mintingState>>
  /\ MintFrame

\* part_000:158-162 mintNFT returned the transaction
MintSendResolve(m) ==
  /\ BagIn(m, mints) /\ m.pc = "mintNFT"
  /\ mints' = Add(Del(mints, m), [m EXCEPT !.pc = "tx.wait"])
  /\ ev' = Ev("handleMint.mintNFT", "resolved", {"tx.wait"}, m, -1, {})
  /\ UNCHANGED <<nfts, formVars, mintingState>>
  /\ MintFrame

\* App.tsx:180-183 setNfts(prev => [...prev, nft])
HandleNFTCreated(nft) == Append(nfts, nft)

\* mutant: the form is cleared only if it still holds the submitted values
MintWaitResolveKeepsEditedForm(m) ==
  /\ BagIn(m, mints) /\ m.pc = "tx.wait"
  /\ nfts' = HandleNFTCreated(Item(m.name, m.description, m.imageUri, m.acct))
  /\ mintingState' = MintingState(FALSE, None, TRUE)
  /\ IF <<file, name, description>> = <<m.file, m.name, m.description>>
       THEN /\ file' = None
            /\ name' = ""
            /\ description' = ""
            /\ previewUrl' = None
       ELSE UNCHANGED formVars
  /\ mints' = Del(mints, m)
  /\ ev' = EvArg("handleMint.tx.wait", "resolved", {"onNFTCreated"}, m, -1, {},
                 NoRef, Args(None, Doc(m.name, m.description, m.imageUri), NoRef))
  /\ MintFrame

\* mutant: the entry is built from the form as it is at confirmation
MintWaitResolveReadsForm(m) ==
  /\ BagIn(m, mints) /\ m.pc = "tx.wait"
  /\ nfts' = HandleNFTCreated(Item(name, description, m.imageUri, m.acct))
  /\ mintingState' = MintingState(FALSE, None, TRUE)
  /\ file' = None
  /\ name' = ""
  /\ description' = ""
  /\ previewUrl' = None
  /\ mints' = Del(mints, m)
  /\ ev' = EvArg("handleMint.tx.wait", "resolved", {"onNFTCreated"}, m, -1, {},
                 NoRef, Args(None, Doc(name, description, m.imageUri), NoRef))
  /\ MintFrame

\* part_000:162-182 the transaction is confirmed
MintWaitResolve(m) ==
  /\ BagIn(m, mints) /\ m.pc = "tx.wait"
  /\ nfts' = HandleNFTCreated(Item(m.name, m.description, m.imageUri, m.acct))
  /\ mintingState' = MintingState(FALSE, None, TRUE)
  /\ file' = None
  /\ name' = ""
  /\ description' = ""
  /\ previewUrl' = None
  /\ mints' = Del(mints, m)
  /\ ev' = EvArg("handleMint.tx.wait", "resolved", {"onNFTCreated"}, m, -1, {},
                 NoRef, Args(None, Doc(m.name, m.description, m.imageUri), NoRef))
  /\ MintFrame

\* part_000:183-190 the call the flow is suspended at failed
MintFail(m, msg) ==
  /\ BagIn(m, mints)
  /\ mintingState' = MintFailedState(msg)
  /\ mints' = Del(mints, m)
  /\ ev' = Ev("handleMint." \o m.pc, "failed", {}, m, -1, {})
  /\ UNCHANGED <<nfts, formVars>>
  /\ MintFrame

(***************************************************************************)
(* Specifications.  The next-state relation is the disjunction of the      *)
(* steps of the parts of the program; accts is the set of accounts the     *)
(* wallet can expose, ids the set of values the token counter can hold.    *)
(***************************************************************************)
\* mount, connectWallet, checkConnection and the init effect, with a user
\* who approves every connection request
ConnectStep(accts) ==
  \/ Mount
  \/ ConnectWallet
  \/ \E a \in accts : ConnectResolve(a)
  \/ CheckConnectionResolve
  \/ CheckConnectionFail
  \/ \E a \in accts : InitResolve(a)
  \/ \E a \in accts : InitFail(a)

\* accountsChanged events and the handlers they start
AccountStep(accts) ==
  \/ \E accounts \in AccountLists(accts) : AccountsChanged(accounts)
  \/ AcctInitResolve
  \/ AcctInitFail

\* the continuations of fetchNFTs up to the read of the counter
CounterStep(ids) ==
  \/ \E f \in BagToSet(fetches) : FetchSignerResolve(f)
  \/ \E f \in BagToSet(fetches), msg \in Thrown("Failed to fetch NFTs") :
        FetchSignerFail(f, msg)
  \/ \E f \in BagToSet(fetches), n \in ids : FetchCounterResolve(f, n)
  \/ \E f \in BagToSet(fetches) : FetchCounterFail(f)

\* the continuations of fetchNFTs after a non-zero counter
MetadataStep ==
  \/ \E f \in BagToSet(fetches), u \in TokenUris : FetchTokenURIResolve(f, u)
  \/ \E f \in BagToSet(fetches) : FetchTokenURIFail(f)
  \/ \E f \in BagToSet(fetches), ok \in BOOLEAN : FetchResponse(f, ok)
  \/ \E f \in BagToSet(fetches) : FetchResponseFail(f)
  \/ \E f \in BagToSet(fetches), d \in Docs : FetchJsonResolve(f, d)
  \/ \E f \in BagToSet(fetches) : FetchJsonFail(f)

\* the continuations of fetchNFTs
GalleryStep ==
  \/ CounterStep(0..MaxId)
  \/ MetadataStep

\* edits of the mint form
FormStep ==
  \/ \E f \in Files : HandleFileChange(f)
  \/ \E v \in Names : SetName(v)
  \/ \E v \in Descriptions : SetDescription(v)

\* the continuations of handleMint
MintStep ==
  \/ \E m \in BagToSet(mints), c \in ImageCids : MintUploadResolve(m, c)
  \/ \E m \in BagToSet(mints), c \in MetaCids : MintMetadataResolve(m, c)
  \/ \E m \in BagToSet(mints) : MintSendResolve(m)
  \/ \E m \in BagToSet(mints) : MintWaitResolve(m)
  \/ \E m \in BagToSet(mints), msg \in Thrown(MintFailMsg) : MintFail(m, msg)

\* every operation
Next ==
  \/ Unmount
  \/ ConnectStep(Accounts)
  \/ ConnectReject
  \/ AccountStep(Accounts)
  \/ ChainChanged
  \/ GalleryStep
  \/ FormStep
  \/ HandleMint
  \/ MintStep

Spec == Init /\ [][Next]_vars

\* The wallet session and the gallery: the wallet switches between its
\* accounts and disconnects; the user leaves the mint form empty, so that
\* no mint flow starts.
NextGallery ==
  \/ ConnectStep(Accounts)
  \/ ConnectReject
  \/ AccountStep(Accounts)
  \/ ChainChanged
  \/ GalleryStep
  \/ HandleMint

SpecGallery == Init /\ [][NextGallery]_vars

\* The wallet session alone: connection requests, approved or rejected,
\* account switches and disconnects, chain changes; the contract holds no
\* token, so that every gallery load ends at the counter.
NextSession ==
  \/ ConnectStep(Accounts)
  \/ ConnectReject
  \/ AccountStep(Accounts)
  \/ ChainChanged
  \/ CounterStep({0})

SpecSession == Init /\ [][NextSession]_vars

\* The wallet session with the components unmounted and mounted again.
NextLifecycle ==
  \/ NextSession
  \/ Unmount

SpecLifecycle == Init /\ [][NextLifecycle]_vars

\* The gallery loader alone: the wallet holds one account and emits no
\* accountsChanged event; the loader takes every path through the counter,
\* the tokenURI read, the inline decode and the remote fetch.
NextLoader ==
  \/ ConnectStep({"0xA"})
  \/ ConnectReject
  \/ ChainChanged
  \/ GalleryStep

SpecLoader == Init /\ [][NextLoader]_vars

\* The mint form and the mint flow, with the session and chain changes: the
\* wallet holds one account and emits no accountsChanged event, and the
\* gallery loads read the counter as zero, so that the gallery holds the
\* entries the mint flows append.
NextMint ==
  \/ ConnectStep({"0xA"})
  \/ ChainChanged
  \/ CounterStep({0})
  \/ FormStep
  \/ HandleMint
  \/ MintStep

SpecMint == Init /\ [][NextMint]_vars

\* The mint flow and the connection request under the assumption that every
\* external call of theirs eventually returns or fails: a pending access
\* request is eventually granted or declined, and a pending upload, mintNFT
\* or transaction wait eventually resolves or rejects.  Nothing is assumed
\* of the calls of the gallery loads, which stay pending; the user fills in
\* the form and clicks Mint.
ConnectReturn ==
  \/ \E a \in {"0xA"} : ConnectResolve(a)
  \/ ConnectReject

MintReturn ==
  \E m \in BagToSet(mints) :
     \/ MintUploadResolve(m, "QmImage1")
     \/ MintMetadataResolve(m, "QmMeta1")
     \/ MintSendResolve(m)
     \/ MintWaitResolve(m)
     \/ MintFail(m, CallErrorMsg)

FillForm ==
  \/ HandleFileChange("file1")
  \/ SetName("name1")
  \/ SetDescription("desc1")

NextLive ==
  \/ ConnectStep({"0xA"})
  \/ ConnectReject
  \/ ChainChanged
  \/ FillForm
  \/ HandleMint
  \/ MintReturn

SpecLive ==
  /\ Init /\ [][NextLive]_vars
  /\ WF_vars(ConnectReturn)
  /\ WF_vars(MintReturn)

(***************************************************************************)
(* Properties                                                              *)
(***************************************************************************)
UploadCalls == {"uploadToIPFS", "uploadMetadataToIPFS", "mintNFT"}
MintOps == {"handleMint.uploadToIPFS", "handleMint.uploadMetadataToIPFS",
            "handleMint.mintNFT", "handleMint.tx.wait"}
FormUnchanged == UNCHANGED <<file, name, description, previewUrl>>

\* C1: a handleMint submitted while the file is missing, the name or the
\* description is empty, or the account, contract or signer is null, calls
\* neither upload nor mintNFT: it issues no call and starts no mint flow.
C1_NoCallOnMissingInput ==
  [][(/\ ev'.op = "handleMint"
      /\ \/ file = None \/ name = "" \/ description = ""
         \/ account = None \/ contract = None \/ signer = None)
       => /\ ev'.calls \cap UploadCalls = {}
          /\ mints' = mints]_vars

C1_Witness ==
  /\ ev.op = "handleMint" /\ ev.out = "fieldsMissing"
  /\ file # None /\ name # "" /\ description = ""
  /\ signer # None /\ contract # None /\ account # None

\* C2: when the transaction of a mint flow is confirmed, the gallery list is
\* the old list with one entry appended, whose name and description are the
\* form values at the click that started the flow and whose image is the
\* reference the image upload returned to that flow.
C2_SuccessAppendsSubmittedEntry ==
  [][/\ (ev'.op = "handleMint" /\ ev'.out = "started")
          => /\ ev'.flow.name = name /\ ev'.flow.description = description
             /\ mints' = Add(mints, ev'.flow)
     /\ (ev'.op \in MintOps \ {"handleMint.tx.wait"} /\ ev'.out = "resolved")
          => \E m2 \in BagToSet(mints') :
               /\ mints' = Add(Del(mints, ev'.flow), m2)
               /\ m2.name = ev'.flow.name
               /\ m2.description = ev'.flow.description
               /\ m2.imageUri = IF ev'.op = "handleMint.uploadToIPFS"
                                  THEN ev'.ret ELSE ev'.flow.imageUri
     /\ (ev'.op = "handleMint.tx.wait" /\ ev'.out = "resolved")
          => /\ BagIn(ev'.flow, mints)
             /\ Len(nfts') = Len(nfts) + 1
             /\ SubSeq(nfts', 1, Len(nfts)) = nfts
             /\ nfts'[Len(nfts')].name = ev'.flow.name
             /\ nfts'[Len(nfts')].description = ev'.flow.description
             /\ nfts'[Len(nfts')].image = ev'.flow.imageUri]_vars

C2_Witness ==
  /\ ev.op = "handleMint.tx.wait" /\ ev.out = "resolved"
  /\ Len(nfts) = 2
  /\ nfts[1].image # nfts[2].image
  /\ nfts[2].name = "name1" /\ nfts[2].image = Ref("ipfs://", "QmImage2")

\* C3: the displayed gallery holds only entries loaded or minted for the
\* active account.
C3_GalleryReflectsAccount ==
  account # None => \A i \in DOMAIN nfts : nfts[i].owner = account

\* C4: an accountsChanged event with an empty list, delivered to the mounted
\* components, sets the account, the signer and the contract to null.
C4_EmptyAccountsClearSession ==
  [][(ev'.op = "accountsChanged" /\ ev'.out = "empty" /\ mounted)
       => account' = None /\ signer' = None /\ contract' = None]_vars

C4_Witness ==
  /\ ev.op = "accountsChanged" /\ ev.out = "empty" /\ mounted
  /\ \E f \in BagToSet(fetches) : f.acct # None
  /\ account = None /\ signer = None /\ contract = None

\* C5: without a provider, connectWallet sets the provider-missing message
\* and issues no request; the connecting flag is never set and the account
\* stays null.
C5_ConnectWithoutProvider ==
  /\ [](~hasProvider => (~isConnecting /\ connects = 0 /\ account = None))
  /\ [][(ev'.op = "connectWallet" /\ ~hasProvider)
          => error' = InstallMsg /\ ev'.calls = {}]_vars

C5_Witness ==
  /\ ~hasProvider /\ ev.op = "connectWallet" /\ ev.out = "noProvider"
  /\ error = InstallMsg /\ account = None /\ ~isConnecting

\* C6: a gallery load that reads the counter as zero sets the gallery to the
\* empty list and ends there: it issues no tokenURI read and no fetch.
C6_ZeroCounterEmptyGallery ==
  [][(ev'.op = "fetchNFTs.getItemId" /\ ev'.out = "resolved" /\ ev'.id = 0)
       => /\ nfts' = << >>
          /\ ev'.calls = {}
          /\ \E f \in BagToSet(fetches) :
               f.pc = "getItemId" /\ fetches' = Del(fetches, f)]_vars

C6_Witness ==
  /\ ev.op = "fetchNFTs.getItemId" /\ ev.out = "resolved" /\ ev.id = 0
  /\ nfts = << >> /\ fetches = EmptyBag /\ account # None

\* C7: a chainChanged event reloads the page whatever is in flight: every
\* component state is back at its initial value and no continuation of the
\* old page is pending.
C7_ChainChangedReloads ==
  [][ev'.op = "chainChanged" => FreshPage']_vars

C7_Witness ==
  /\ ev.op = "chainChanged" /\ ev.out = "reload"
  /\ {"connectWallet", "handleMint.tx.wait"} \subseteq ev.pending
  /\ \E x \in ev.pending : x \in {"fetchNFTs.getSigner", "fetchNFTs.getItemId",
                                   "fetchNFTs.tokenURI", "fetchNFTs.fetch",
                                   "fetchNFTs.json"}
  /\ FreshPage

\* C8: a failure of the image upload, the metadata upload, mintNFT or the
\* confirmation ends the flow with isMinting false, success false and an
\* error message, issues no further call, leaves the form and the gallery
\* unchanged; no step of a flow but its confirmation changes the gallery.
C8_FailureEndsInIdleError ==
  [][/\ (ev'.op \in MintOps /\ ev'.out = "failed")
          => /\ ~mintingState'.isMinting
             /\ ~mintingState'.success
             /\ mintingState'.error # None
             /\ nfts' = nfts
             /\ FormUnchanged
             /\ ev'.calls = {}
             /\ BagIn(ev'.flow, mints)
             /\ mints' = Del(mints, ev'.flow)
     /\ (/\ ev'.op \in MintOps \cup {"handleMint"}
         /\ ~(ev'.op = "handleMint.tx.wait" /\ ev'.out = "resolved"))
          => nfts' = nfts]_vars

C8_Witness ==
  /\ ev.op = "handleMint.tx.wait" /\ ev.out = "failed"
  /\ ~mintingState.isMinting /\ mintingState.error = CallErrorMsg
  /\ file # None /\ name # "" /\ description # ""
  /\ mints = EmptyBag

\* C9: a handleMint rejected by a precondition ends with isMinting false,
\* success false and an error message, and leaves the form, the signer, the
\* contract and the gallery unchanged.
C9_RejectionFrame ==
  [][(/\ ev'.op = "handleMint"
      /\ \/ file = None \/ name = "" \/ description = ""
         \/ account = None \/ contract = None \/ signer = None)
       => /\ ~mintingState'.isMinting
          /\ ~mintingState'.success
          /\ mintingState'.error # None
          /\ FormUnchanged
          /\ UNCHANGED <<signer, contract, nfts>>]_vars

C9_Witness ==
  /\ ev.op = "handleMint" /\ ev.out = "fieldsMissing"
  /\ file = None /\ nfts # << >>
  /\ mintingState = MintingState(FALSE, FillFieldsMsg, FALSE)

\* C10: in a gallery load, a failed counter read sets the error message; a
\* failed tokenURI read, or a failed remote fetch after a failed inline
\* decode, leaves the error message as it is and sets the gallery to the
\* empty list.
C10_LoaderFailures ==
  [][/\ (ev'.op = "fetchNFTs.getItemId" /\ ev'.out = "failed")
          => error' = FetchFailMsg
     /\ (\/ ev'.op = "fetchNFTs.tokenURI" /\ ev'.out = "failed"
         \/ ev'.op \in {"fetchNFTs.fetch", "fetchNFTs.json"}
              /\ ev'.out \in {"failed", "notOk"})
          => error' = error /\ nfts' = << >>]_vars

C10_Witness ==
  /\ ev.op = "fetchNFTs.tokenURI" /\ ev.out = "failed"
  /\ error = None /\ nfts = << >> /\ account # None /\ ~loading

\* C11: with a provider, a connectWallet whose access request is declined or
\* errors ends with the account null and the wallet-failure message; one
\* whose request is granted ends with the account the request returned and
\* no message; either way the connecting flag is false at the end.
C11_ConnectOutcomes ==
  [][/\ (ev'.op = "connectWallet" /\ ev'.out = "rejected")
          => /\ hasProvider /\ connects' = connects - 1
             /\ account' = None /\ error' = ConnectFailMsg /\ ~isConnecting'
     /\ (ev'.op = "connectWallet" /\ ev'.out = "resolved")
          => /\ hasProvider /\ connects' = connects - 1
             /\ account' = wallet' /\ account' \in Accounts
             /\ error' = None /\ ~isConnecting']_vars

C11_Witness ==
  /\ ev.op = "connectWallet" /\ ev.out = "rejected"
  /\ account = None /\ error = ConnectFailMsg /\ ~isConnecting
  /\ signer # None

\* C12: the step that ends a mint flow with the transaction confirmed leaves
\* success true, isMinting false, the error null and the file, the name,
\* the description and the preview empty, whatever the form held before it.
C12_SuccessClearsForm ==
  [][(ev'.op = "handleMint.tx.wait" /\ ev'.out = "resolved")
       => /\ mintingState' = MintingState(FALSE, None, TRUE)
          /\ file' = None /\ name' = "" /\ description' = ""
          /\ previewUrl' = None]_vars

C12_Witness ==
  /\ ev.op = "handleMint.tx.wait" /\ ev.out = "resolved"
  /\ ev.flow.name = "name1" /\ ev.flow.file = "file1"
  /\ mintingState.success /\ ~mintingState.isMinting
  /\ mintingState.error = None
  /\ file = None /\ name = "" /\ description = "" /\ previewUrl = None

\* C13: within one mint flow the calls are issued in the order image upload,
\* metadata upload, mintNFT, transaction wait, gallery callback, one per
\* step and each by the step in which the previous call of that flow
\* succeeded: the metadata document carries the reference the image upload
\* returned, mintNFT gets the reference the metadata upload returned, and
\* the gallery callback is issued by the confirmation of the transaction.
MintCalls == {"uploadToIPFS", "uploadMetadataToIPFS", "mintNFT", "tx.wait",
              "onNFTCreated"}

\* the references a flow holds at each suspension point
FlowRefsInOrder ==
  \A m \in BagToSet(mints) :
    /\ m.pc \in {"uploadToIPFS", "uploadMetadataToIPFS", "mintNFT", "tx.wait"}
    /\ (m.imageUri # NoRef) <=> (m.pc # "uploadToIPFS")
    /\ (m.metadataUri # NoRef) <=> (m.pc \in {"mintNFT", "tx.wait"})

C13_CallsInOrder ==
  /\ []FlowRefsInOrder
  /\ [][/\ Cardinality(ev'.calls \cap MintCalls) <= 1
        /\ "uploadToIPFS" \in ev'.calls
             => /\ ev'.op = "handleMint" /\ ev'.arg.file = file
                /\ ev'.flow.pc = "uploadToIPFS"
                /\ mints' = Add(mints, ev'.flow)
        /\ "uploadMetadataToIPFS" \in ev'.calls
             => /\ ev'.op = "handleMint.uploadToIPFS" /\ ev'.out = "resolved"
                /\ BagIn(ev'.flow, mints) /\ ev'.flow.pc = "uploadToIPFS"
                /\ ev'.arg.doc = Doc(ev'.flow.name, ev'.flow.description, ev'.ret)
                /\ ev'.ret # NoRef
        /\ "mintNFT" \in ev'.calls
             => /\ ev'.op = "handleMint.uploadMetadataToIPFS"
                /\ ev'.out = "resolved"
                /\ BagIn(ev'.flow, mints)
                /\ ev'.flow.pc = "uploadMetadataToIPFS"
                /\ ev'.flow.imageUri # NoRef
                /\ ev'.arg.ref = ev'.ret /\ ev'.ret # NoRef
        /\ "tx.wait" \in ev'.calls
             => /\ ev'.op = "handleMint.mintNFT" /\ ev'.out = "resolved"
                /\ BagIn(ev'.flow, mints) /\ ev'.flow.pc = "mintNFT"
        /\ "onNFTCreated" \in ev'.calls
             => /\ ev'.op = "handleMint.tx.wait" /\ ev'.out = "resolved"
                /\ BagIn(ev'.flow, mints) /\ ev'.flow.pc = "tx.wait"
                /\ ev'.arg.doc = Doc(ev'.flow.name, ev'.flow.description,
                                     ev'.flow.imageUri)
        /\ (ev'.op \in MintOps /\ ev'.out = "failed")
             => ev'.calls = {}]_vars

C13_Witness ==
  /\ ev.op = "handleMint.uploadMetadataToIPFS" /\ ev.out = "resolved"
  /\ ev.calls = {"mintNFT"}
  /\ ev.arg.ref = Ref("ipfs://", "QmMeta1")
  /\ ev.flow.imageUri = Ref("ipfs://", "QmImage2")
  /\ \E m \in BagToSet(mints) : m.pc = "mintNFT" /\ m.metadataUri = ev.arg.ref

\* C14: whenever NFTMinter holds a signer or a contract handle, the active
\* account is set and the handle was derived for that account.
C14_SignerBoundToAccount ==
  (signer # None \/ contract # None)
     => (account # None /\ signer = account /\ contract = account)

\* C15: at most one mint flow is in flight, and isMinting is true for as
\* long as a flow is in flight.
C15_OneMintInFlight ==
  /\ BagCardinality(mints) <= 1
  /\ mints # EmptyBag => mintingState.isMinting

\* C16: the gallery loader attempts the remote fetch only when the inline
\* decode of the location string failed; when the inline decode succeeded
\* it makes no fetch and sets the gallery to the entry built from the
\* decoded document; when the remote fetch delivered a document it sets the
\* gallery to the entry built from that document.
C16_TwoTierResolution ==
  [][/\ (ev'.op = "fetchNFTs.tokenURI" /\ "fetch" \in ev'.calls)
          => ev'.out = "fallback"
     /\ (ev'.op = "fetchNFTs.tokenURI" /\ ev'.out \in {"inline", "decoded"})
          => /\ ev'.calls = {}
             /\ Len(nfts') = 1
             /\ nfts'[1].image = ev'.arg.doc.image
             /\ nfts'[1].name \in {ev'.arg.doc.name, DefaultName(ev'.id)}
     /\ (ev'.op = "fetchNFTs.json" /\ ev'.out \in {"remote", "parsed"})
          => /\ Len(nfts') = 1
             /\ nfts'[1].name \in {ev'.arg.doc.name, DefaultName(ev'.id)}]_vars

\* C17: a gallery load that reads the counter as n > 0 reads the location
\* string of one token, the one with id n - 1; no other step of a load
\* reads a location string, and the list a load sets as the gallery has at
\* most one entry.
LoaderOps == {"fetchNFTs.getSigner", "fetchNFTs.getItemId",
              "fetchNFTs.tokenURI", "fetchNFTs.fetch", "fetchNFTs.json"}

C17_ReadsLastTokenOnly ==
  [][/\ (/\ ev'.op = "fetchNFTs.getItemId" /\ ev'.out = "resolved"
         /\ ev'.id > 0)
          => /\ ev'.calls = {"tokenURI"}
             /\ \E f \in BagToSet(fetches) :
                  /\ f.pc = "getItemId"
                  /\ fetches' = Add(Del(fetches, f),
                                    Fetch(f.acct, "tokenURI", ev'.id - 1))
     /\ (ev'.op \in LoaderOps /\ "tokenURI" \in ev'.calls)
          => ev'.op = "fetchNFTs.getItemId" /\ ev'.id > 0
     /\ (ev'.op = "fetchNFTs.tokenURI" /\ ev'.out # "failed")
          => \E f \in BagToSet(fetches) :
               f.pc = "tokenURI" /\ f.id = ev'.id /\ f.id >= 0
     /\ (ev'.op \in LoaderOps /\ nfts' # nfts)
          => Len(nfts') <= 1]_vars

C17_Witness ==
  /\ ev.op = "fetchNFTs.getItemId" /\ ev.out = "resolved" /\ ev.id = 1
  /\ ev.calls = {"tokenURI"}
  /\ \E f \in BagToSet(fetches) : f.pc = "tokenURI" /\ f.id = 0

\* C18: if every external call eventually returns or fails, a started mint
\* flow is followed by a state with isMinting false and a started
\* connection request by a state with the connecting flag false.
C18_NothingStuck ==
  /\ mintingState.isMinting ~> ~mintingState.isMinting
  /\ isConnecting ~> ~isConnecting

C18_Witness ==
  /\ ev.op = "connectWallet" /\ ev.out = "rejected"
  /\ ~isConnecting /\ connects = 0
  /\ ~mintingState.isMinting /\ mints = EmptyBag
  /\ mintingState.error = CallErrorMsg

\* C19: once the components are unmounted, none of the listeners they
\* registered with the provider is still registered.
C19_ListenersRemoved ==
  ~mounted => listeners = {}

\* C20: every step that ends a gallery load (no account, no tokens, entry
\* resolved, metadata failure, counter failure, signer failure) leaves the
\* loading flag false, and within the life of a page no step sets the flag
\* to true once it is false.
PageReplaced == {"chainChanged", "unmount"}

C20_LoadingEndsFalse ==
  [][/\ (/\ ev'.op \in LoaderOps
         /\ BagCardinality(fetches') < BagCardinality(fetches))
          => ~loading'
     /\ (ev'.op \notin PageReplaced /\ account # None /\ account' = None)
          => ~loading'
     /\ ev'.op = "mount" => ~loading'
     /\ (ev'.op \notin PageReplaced /\ ~loading) => ~loading']_vars

C20_Witness ==
  /\ ev.op = "fetchNFTs.json" /\ ev.out = "remote"
  /\ Len(nfts) = 1 /\ fetches = EmptyBag
  /\ ~loading

====
